---- MODULE Spec2Model ----
(***************************************************************************)
(* Model of the SustainabilityCdkappStack resource declaration.            *)
(*                                                                         *)
(* Variant "A" is the stack with the CDN (src/unnamed/part_000), variant   *)
(* "B" the stack with a single bucket                                      *)
(* (src/lib/sustainability-cdkapp-stack.ts).  The constructor is modelled  *)
(* as the composition of its statements over a construct tree; the cloud   *)
(* services that interpret the declared resources (provisioning engine,    *)
(* API gateway, object store, CDN) are modelled by the documented meaning  *)
(* of the properties the declaration sets.                                 *)
(***************************************************************************)
EXTENDS Integers, Sequences, FiniteSets, TLC

VARIABLES
    variant,    \* which of the two stack declarations is instantiated
    phase,      \* "new" | "synthesized" | "deployed"
    tree,       \* the construct tree built by the constructor
    created,    \* resources the provisioning engine has created so far
    objects,    \* site bucket: key -> content version, 0 when absent
    cache,      \* CDN edge cache: key -> cached response, or NoEntry
    deployPc,   \* bucket deployment handler: "idle" | "uploaded"
    redeployed, \* a deployment of changed assets has completed
    response,   \* the last response the deployed stack returned
    tokens,     \* usage plan throttle: tokens left in the bucket
    secForwarded, \* requests forwarded to the function this second
    monthUsed,  \* usage plan quota: requests counted this month
    invokedKeys \* API keys of the requests that reached the function

----------------------------------------------------------------------------
(* IAM actions and principals *)

\* An IAM action "svc:VerbNounMore" is a service and the words of its name;
\* a pattern may end in the wildcard word "*".
Act(svc, name) == [svc |-> svc, name |-> name]

IsPrefix(p, s) == Len(p) <= Len(s) /\ \A i \in 1..Len(p) : p[i] = s[i]

\* IAM wildcard matching of an action pattern against a concrete action.
ActionMatches(pat, a) ==
    /\ pat.svc = a.svc
    /\ IF Len(pat.name) > 0 /\ pat.name[Len(pat.name)] = "*"
       THEN IsPrefix(SubSeq(pat.name, 1, Len(pat.name) - 1), a.name)
       ELSE pat.name = a.name

RoleOf(fn) == <<"Role", fn>>
CanonicalUserPrincipal(oai) == <<"CanonicalUser", oai>>
AnyPrincipal == <<"Any", "*">>
Anonymous == <<"Anonymous", "-">>

----------------------------------------------------------------------------
(* Literals of the declaration *)

SustainabilityPolicyStatementsWithDelete ==
    { [actions |-> {Act("cloudformation", <<"List", "Stack", "Resources">>)}, resources |-> {"*"}],
      [actions |-> {Act("ec2", <<"Describe", "Instances">>)}, resources |-> {"*"}],
      [actions |-> {Act("lambda", <<"Get", "Function", "Configuration">>)}, resources |-> {"*"}],
      [actions |-> {Act("s3", <<"Delete", "Object">>)}, resources |-> {"*"}] }

\* statements of the inline policy `sustainability-policy`
SustainabilityPolicyStatements ==
    { [actions |-> {Act("cloudformation", <<"List", "Stack", "Resources">>)}, resources |-> {"*"}],
      [actions |-> {Act("ec2", <<"Describe", "Instances">>)}, resources |-> {"*"}],
      [actions |-> {Act("lambda", <<"Get", "Function", "Configuration">>)}, resources |-> {"*"}],
      [actions |-> {Act("s3", <<"Get", "Lifecycle", "Configuration">>)}, resources |-> {"*"}] }

\* the function whose role receives the inline policy
PolicyTarget == "sustainability-core"

StageName == "dev"

SustainabilityPath == <<"green", "v1", "sustainability">>

MethodOptionsNoKey == [apiKeyRequired |-> FALSE]

MethodOptions == [apiKeyRequired |-> TRUE]

UsagePlanThrottleBurst2 == [burstLimit |-> 2, rateLimit |-> 1]

UsagePlanThrottle == [burstLimit |-> 1, rateLimit |-> 1]

UsagePlanQuota == [limit |-> 1000, period |-> "MONTH"]

BucketPropsPublic ==
    [ blockPublicAccess |-> "NONE", publicReadAccess |-> TRUE,
      versioned |-> FALSE, removalPolicy |-> "DESTROY",
      encryption |-> "S3_MANAGED", autoDeleteObjects |-> TRUE,
      enforceSSL |-> TRUE ]

BucketProps ==
    [ blockPublicAccess |-> "BLOCK_ALL", publicReadAccess |-> FALSE,
      versioned |-> FALSE, removalPolicy |-> "DESTROY",
      encryption |-> "S3_MANAGED", autoDeleteObjects |-> TRUE,
      enforceSSL |-> TRUE ]

\* the statement the stack adds to the site bucket's resource policy
OaiStatement ==
    [ effect |-> "Allow", actions |-> {Act("s3", <<"Get", "Object">>)},
      principal |-> CanonicalUserPrincipal("sfimage-cloudfront-OAI"),
      onlyInsecure |-> FALSE ]

ErrorResponses ==
    { [httpStatus |-> 404, responseHttpStatus |-> 200,
       responsePagePath |-> <<"index.html">>] }

DefaultRootObject == <<"index.html">>

DistributionPathsIndexOnly == { <<"index.html">> }

DistributionPaths == { <<"*">> }

----------------------------------------------------------------------------
(* The constructor's statements, as operators on the construct tree *)

EmptyTree ==
    [ resources |-> {}, refs |-> {}, functions |-> {}, policies |-> {},
      apis |-> {}, methods |-> {}, usagePlans |-> {}, apiKeys |-> {},
      buckets |-> {}, bucketPolicy |-> {}, rolePolicy |-> {}, oais |-> {},
      distributions |-> {}, deployments |-> {}, outputs |-> {} ]

\* tree t with resource id declared, referring to the resources in uses;
\* a resource id is the sequence of construct ids that names it
Declare(t, id, uses) ==
    [t EXCEPT !.resources = @ \cup {id},
              !.refs = @ \cup { <<id, u>> : u \in uses }]

\* new Function(this, id, {...}): the function and its execution role
NewFunction(t, id, architecture) ==
    [Declare(t, <<id>>, {}) EXCEPT
        !.functions = @ \cup
            { [ name |-> id, runtime |-> "nodejs16.x", handler |-> "index.handler",
                architecture |-> architecture, timeout |-> 60,
                role |-> RoleOf(id) ] }]

\* fn.role?.attachInlinePolicy(new iam.Policy(this, id, {statements}))
AttachInlinePolicy(t, fn, id, statements) ==
    [Declare(t, <<id>>, {<<fn>>}) EXCEPT
        !.policies = @ \cup
            { [ name |-> id, statements |-> statements, roles |-> {RoleOf(fn)} ] }]

\* new apigateway.RestApi(this, id, {deployOptions, defaultCorsPreflightOptions})
\* The CORS preflight option puts an OPTIONS method with a mock integration
\* on the root resource.
NewRestApi(t, id, stageName) ==
    [Declare(t, <<id>>, {}) EXCEPT
        !.apis = @ \cup { [ name |-> id, stage |-> stageName ] },
        !.methods = @ \cup
            { [ api |-> id, path |-> << >>, httpMethod |-> "OPTIONS",
                integration |-> "MOCK", apiKeyRequired |-> FALSE ] }]

\* parent.addResource(part): the resource inherits the CORS preflight method
AddResource(t, api, path) ==
    [Declare(t, <<api>> \o path, {<<api>> \o SubSeq(path, 1, Len(path) - 1)}) EXCEPT
        !.methods = @ \cup
            { [ api |-> api, path |-> path, httpMethod |-> "OPTIONS",
                integration |-> "MOCK", apiKeyRequired |-> FALSE ] }]

\* resource.addMethod(httpMethod, new LambdaIntegration(fn, {proxy: true}), options)
AddMethod(t, api, path, httpMethod, fn, options) ==
    [Declare(t, <<api>> \o path \o <<httpMethod>>, {<<api>> \o path, <<fn>>}) EXCEPT
        !.methods = @ \cup
            { [ api |-> api, path |-> path, httpMethod |-> httpMethod,
                integration |-> fn, apiKeyRequired |-> options.apiKeyRequired ] }]

\* the deployed stage of an api of the tree
DeploymentStage(t, api) ==
    { [api |-> a.name, stage |-> a.stage] : a \in { x \in t.apis : x.name = api } }

\* api.addUsagePlan(id, {apiStages: [{api, stage: api.deploymentStage}], throttle, quota})
AddUsagePlan(t, api, id, throttle, quota) ==
    [Declare(t, <<id>>, {<<api>>}) EXCEPT
        !.usagePlans = @ \cup
            { [ name |-> id, apiStages |-> DeploymentStage(t, api),
                throttle |-> throttle, quota |-> quota, keys |-> {} ] }]

\* api.addApiKey(id): a key scoped to the api's deployed stage
AddApiKey(t, api, id) ==
    [Declare(t, <<id>>, {<<api>>}) EXCEPT
        !.apiKeys = @ \cup { [ id |-> id, stages |-> DeploymentStage(t, api) ] }]

UsagePlanAddApiKeyOmitted(t, plan, key) == t

\* usagePlan.addApiKey(key)
UsagePlanAddApiKey(t, plan, key) ==
    [Declare(t, <<plan, key>>, {<<plan>>, <<key>>}) EXCEPT
        !.usagePlans =
            { IF p.name = plan THEN [p EXCEPT !.keys = @ \cup {key}] ELSE p
              : p \in @ }]

\* role of the custom resource provider that empties buckets on removal
AutoDeleteRole == <<"Role", "Custom::S3AutoDeleteObjects">>

\* role of the handler that runs bucket deployments
DeploymentHandlerRole == <<"Role", "Custom::CDKBucketDeployment">>

\* new s3.Bucket(this, id, props): enforceSSL adds the deny statement for
\* requests not made over TLS, autoDeleteObjects adds the grant that lets
\* the auto-delete provider list and delete the bucket's objects,
\* publicReadAccess grants s3:GetObject to everyone.
NewBucket(t, id, name, props) ==
    [Declare(t, <<id>>, {}) EXCEPT
        !.buckets = @ \cup { [ id |-> id, bucketName |-> name, props |-> props ] },
        !.bucketPolicy = @ \cup
            { [ bucket |-> id, st |->
                 [ effect |-> "Deny", actions |-> {Act("s3", <<"*">>)},
                   principal |-> AnyPrincipal, onlyInsecure |-> TRUE ] ]
              : x \in IF props.enforceSSL THEN {1} ELSE {} }
            \cup
            { [ bucket |-> id, st |->
                 [ effect |-> "Allow",
                   actions |-> { Act("s3", <<"Get", "Bucket", "*">>),
                                 Act("s3", <<"List", "*">>),
                                 Act("s3", <<"Delete", "Object", "*">>),
                                 Act("s3", <<"Put", "Bucket", "Policy">>) },
                   principal |-> AutoDeleteRole, onlyInsecure |-> FALSE ] ]
              : x \in IF props.autoDeleteObjects THEN {1} ELSE {} }
            \cup
            { [ bucket |-> id, st |->
                 [ effect |-> "Allow", actions |-> {Act("s3", <<"Get", "Object">>)},
                   principal |-> AnyPrincipal, onlyInsecure |-> FALSE ] ]
              : x \in IF props.publicReadAccess THEN {1} ELSE {} }]

\* new cloudfront.OriginAccessIdentity(this, id, {...})
NewOriginAccessIdentity(t, id) ==
    [Declare(t, <<id>>, {}) EXCEPT !.oais = @ \cup {id}]

\* bucket.addToResourcePolicy(statement); the statement names the bucket's
\* objects and the identity it is granted to
AddToResourcePolicy(t, bucket, oai, statement) ==
    [Declare(t, <<bucket, "Policy">>, {<<bucket>>, <<oai>>}) EXCEPT
        !.bucketPolicy = @ \cup { [ bucket |-> bucket, st |-> statement ] }]

\* new cloudfront.Distribution(this, id, {...}) with an S3Origin over the
\* site bucket; binding the origin grants its access identity s3:GetObject
\* on the bucket's objects.
NewDistribution(t, id, siteBucket, logBucket, oai) ==
    [Declare(t, <<id>>, {<<siteBucket>>, <<logBucket>>, <<oai>>}) EXCEPT
        !.distributions = @ \cup
            { [ id |-> id, origin |-> siteBucket, originAccessIdentity |-> oai,
                logBucket |-> logBucket, defaultRootObject |-> DefaultRootObject,
                errorResponses |-> ErrorResponses,
                viewerProtocolPolicy |-> "REDIRECT_TO_HTTPS" ] },
        !.bucketPolicy = @ \cup
            { [ bucket |-> siteBucket, st |->
                 [ effect |-> "Allow", actions |-> {Act("s3", <<"Get", "Object">>)},
                   principal |-> CanonicalUserPrincipal(oai),
                   onlyInsecure |-> FALSE ] ] }]

DeploymentRefsWithoutDistribution(siteBucket, distribution) == {<<siteBucket>>}

\* the resources a bucket deployment's declaration refers to
DeploymentRefs(siteBucket, distribution) == {<<siteBucket>>, <<distribution>>}

\* new s3deploy.BucketDeployment(this, id, {sources, destinationBucket,
\* distribution, distributionPaths}): the handler's role is granted read and
\* write on the destination bucket and may create invalidations.
NewBucketDeployment(t, id, siteBucket, distribution, paths) ==
    [Declare(t, <<id>>, DeploymentRefs(siteBucket, distribution)) EXCEPT
        !.deployments = @ \cup
            { [ id |-> id, destinationBucket |-> siteBucket,
                distribution |-> distribution, distributionPaths |-> paths ] },
        !.rolePolicy = @ \cup
            { [ role |-> DeploymentHandlerRole, bucket |-> siteBucket,
                actions |-> { Act("s3", <<"Get", "Object", "*">>),
                              Act("s3", <<"Get", "Bucket", "*">>),
                              Act("s3", <<"List", "*">>),
                              Act("s3", <<"Delete", "Object", "*">>),
                              Act("s3", <<"Put", "Object", "*">>),
                              Act("s3", <<"Abort", "*">>) } ] }]

\* new cdk.CfnOutput(this, id, {value: distribution.domainName, ...})
NewCfnOutput(t, id, distribution) ==
    [Declare(t, <<id>>, {<<distribution>>}) EXCEPT !.outputs = @ \cup {id}]

----------------------------------------------------------------------------
(* The constructor *)

\* the statements both declarations share: functions, policy, API
ApiPart ==
    LET t1 == NewFunction(EmptyTree, "sustainability-core", "x86_64")
        t2 == NewFunction(t1, "hex-core-dev", "arm64")
        t3 == AttachInlinePolicy(t2, PolicyTarget, "sustainability-policy",
                                 SustainabilityPolicyStatements)
        t4 == NewRestApi(t3, "sustainability-api", StageName)
        t5 == AddResource(t4, "sustainability-api", <<"green">>)
        t6 == AddResource(t5, "sustainability-api", <<"green", "v1">>)
        t7 == AddResource(t6, "sustainability-api", SustainabilityPath)
        t8 == AddMethod(t7, "sustainability-api", SustainabilityPath, "POST",
                        "sustainability-core", MethodOptions)
        t9 == AddUsagePlan(t8, "sustainability-api", "sustainability-usageplan",
                           UsagePlanThrottle, UsagePlanQuota)
        t10 == AddApiKey(t9, "sustainability-api", "ApiKey")
    IN  UsagePlanAddApiKey(t10, "sustainability-usageplan", "ApiKey")

\* the stack without the CDN
ConstructB ==
    NewBucket(ApiPart, "Bucket", "sustainability-proof-of-concept", BucketProps)

\* the stack with the CDN
ConstructA ==
    LET t1 == NewBucket(ApiPart, "Bucket", "cloud9-sustainability-poc-ui-bucket",
                        BucketProps)
        t2 == NewBucket(t1, "LogBucket",
                        "common-logging-cloud9-sustainability-poc-ui-bucket",
                        BucketProps)
        t3 == NewOriginAccessIdentity(t2, "sfimage-cloudfront-OAI")
        t4 == AddToResourcePolicy(t3, "Bucket", "sfimage-cloudfront-OAI", OaiStatement)
        t5 == NewDistribution(t4, "cloud9-sustainability-siteDistribution",
                              "Bucket", "LogBucket", "sfimage-cloudfront-OAI")
        t6 == NewBucketDeployment(t5, "DeployWithInvalidation", "Bucket",
                                  "cloud9-sustainability-siteDistribution",
                                  DistributionPaths)
    IN  NewCfnOutput(t6, "CloudFrontURL", "cloud9-sustainability-siteDistribution")

Construct(v) == IF v = "A" THEN ConstructA ELSE ConstructB

Variants == {"A", "B"}


----------------------------------------------------------------------------
(* Bounds of the model *)

\* content versions an object can take (0 is "absent")
MaxVersion == 2

\* saturation of the per-second invocation counter
MaxCount == 3

\* object keys of the site bucket, and the paths a viewer asks for
Keys == { <<"index.html">>, <<"asset.png">> }

RequestPaths == Keys \cup { << >> }

Versions == 0..MaxVersion

\* the asset directory's content at the first deployment
InitialAssets == [k \in Keys |-> 1]

NoEntry == [status |-> 0, body |-> 0]

NoResponse ==
    [ via |-> "none", who |-> Anonymous, key |-> << >>, secure |-> FALSE,
      method |-> "GET", status |-> 0, body |-> 0, absent |-> FALSE,
      forwarded |-> FALSE ]

----------------------------------------------------------------------------
(* Object store: authorization of a request on a bucket *)

BlocksPublic(t, b) ==
    \E x \in t.buckets : x.id = b /\ x.props.blockPublicAccess = "BLOCK_ALL"

CoversAction(actions, a) == \E pat \in actions : ActionMatches(pat, a)

\* an Allow of the bucket's policy applies; a statement for everyone is
\* ignored while the bucket blocks public access
ResourceAllows(t, b, p, a) ==
    \E e \in t.bucketPolicy :
        /\ e.bucket = b /\ e.st.effect = "Allow"
        /\ CoversAction(e.st.actions, a)
        /\ \/ e.st.principal = p
           \/ e.st.principal = AnyPrincipal /\ ~BlocksPublic(t, b)

\* a Deny of the bucket's policy applies (enforceSSL: requests without TLS)
ResourceDenies(t, b, p, a, secure) ==
    \E e \in t.bucketPolicy :
        /\ e.bucket = b /\ e.st.effect = "Deny"
        /\ CoversAction(e.st.actions, a)
        /\ e.st.principal \in {p, AnyPrincipal}
        /\ e.st.onlyInsecure => ~secure

\* an identity policy of the principal allows: a grant on the bucket, or an
\* inline policy statement on all resources
IdentityAllows(t, b, p, a) ==
    \/ \E g \in t.rolePolicy :
          g.role = p /\ g.bucket = b /\ CoversAction(g.actions, a)
    \/ \E pol \in t.policies :
          /\ p \in pol.roles
          /\ \E st \in pol.statements :
                "*" \in st.resources /\ CoversAction(st.actions, a)

Authorized(t, b, p, a, secure) ==
    /\ ~ResourceDenies(t, b, p, a, secure)
    /\ ResourceAllows(t, b, p, a) \/ IdentityAllows(t, b, p, a)

\* GetObject: a caller without s3:ListBucket gets 403 for a key that does
\* not exist, a caller with it gets 404
S3GetObject(t, objs, b, p, key, secure) ==
    IF ~Authorized(t, b, p, Act("s3", <<"Get", "Object">>), secure)
    THEN [status |-> 403, body |-> 0]
    ELSE IF objs[key] = 0
         THEN [ status |-> IF Authorized(t, b, p, Act("s3", <<"List", "Bucket">>), secure)
                           THEN 404 ELSE 403,
                body |-> 0 ]
         ELSE [status |-> 200, body |-> objs[key]]

----------------------------------------------------------------------------
(* CDN *)

\* a path pattern ending in "*" matches every key it is a prefix of
PathMatches(pat, k) ==
    IF Len(pat) > 0 /\ pat[Len(pat)] = "*"
    THEN IsPrefix(SubSeq(pat, 1, Len(pat) - 1), k)
    ELSE pat = k

\* the cache after an invalidation of the given path patterns
Invalidate(c, paths) ==
    [ k \in Keys |-> IF \E pat \in paths : PathMatches(pat, k)
                     THEN NoEntry ELSE c[k] ]

\* the object a viewer's path names: the default root object for "/"
ObjectKey(d, path) == IF path = << >> THEN d.defaultRootObject ELSE path

\* what distribution d answers from its origin: the origin's response, or the
\* custom error response configured for the origin's status
OriginFetch(t, objs, d, key) ==
    LET oai == CanonicalUserPrincipal(d.originAccessIdentity)
        r == S3GetObject(t, objs, d.origin, oai, key, TRUE)
        ers == { e \in d.errorResponses : e.httpStatus = r.status }
    IN  IF ers = {} THEN r
        ELSE LET e == CHOOSE x \in ers : TRUE
                 page == S3GetObject(t, objs, d.origin, oai, e.responsePagePath, TRUE)
             IN  IF page.status = 200
                 THEN [status |-> e.responseHttpStatus, body |-> page.body]
                 ELSE r

----------------------------------------------------------------------------
(* API gateway *)

ApiKeyValues == {"none", "ApiKey", "ForeignKey"}

HttpMethods == {"POST", "OPTIONS", "GET"}

ApiPaths == { SustainabilityPath }

\* the usage plans that key k selects on the api's deployed stage
PlansOf(t, api, k) ==
    { p \in t.usagePlans :
        /\ k \in p.keys
        /\ \E key \in t.apiKeys : key.id = k
        /\ DeploymentStage(t, api) \cap p.apiStages # {} }

Min(a, b) == IF a < b THEN a ELSE b

----------------------------------------------------------------------------
(* Synthesis and provisioning *)

vars == << variant, phase, tree, created, objects, cache, deployPc, redeployed,
           response, tokens, secForwarded, monthUsed,
           invokedKeys >>

cdnVars == <<objects, cache, deployPc, redeployed>>
apiVars == <<tokens, secForwarded, monthUsed, invokedKeys>>

Init ==
    /\ variant \in Variants
    /\ phase = "new"
    /\ tree = EmptyTree
    /\ created = {}
    /\ objects = [k \in Keys |-> 0]
    /\ cache = [k \in Keys |-> NoEntry]
    /\ deployPc = "idle"
    /\ redeployed = FALSE
    /\ response = NoResponse
    /\ tokens = 0
    /\ secForwarded = 0
    /\ monthUsed = 0
    /\ invokedKeys = {}

\* new SustainabilityCdkappStack(scope, id, props)
Synth ==
    /\ phase = "new"
    /\ tree' = Construct(variant)
    /\ phase' = "synthesized"
    /\ UNCHANGED <<variant, created, response>>
    /\ UNCHANGED cdnVars
    /\ UNCHANGED apiVars

\* the resources r refers to
DependsOn(t, r) == { e[2] : e \in { x \in t.refs : x[1] = r } }

\* The provisioning engine creates a resource once everything it refers to
\* exists; resources not ordered by a reference are created in any order.
\* Creating a bucket deployment runs its handler: the assets are uploaded
\* (the first upload is every asset at its first version; later deployments
\* change and remove assets) and the distribution paths invalidated.  Creating a usage plan fills its
\* token bucket.
CreateResource ==
    /\ phase = "synthesized"
    /\ \E r \in tree.resources \ created :
          /\ DependsOn(tree, r) \subseteq created
          /\ created' = created \cup {r}
          /\ IF \E dep \in tree.deployments : <<dep.id>> = r
             THEN LET dep == CHOOSE x \in tree.deployments : <<x.id>> = r
                  IN  /\ objects' = InitialAssets
                      /\ cache' = Invalidate(cache, dep.distributionPaths)
             ELSE UNCHANGED <<objects, cache>>
          /\ IF \E p \in tree.usagePlans : <<p.name>> = r
             THEN LET p == CHOOSE x \in tree.usagePlans : <<x.name>> = r
                  IN  tokens' = p.throttle.burstLimit
             ELSE UNCHANGED tokens
    /\ UNCHANGED <<variant, phase, tree, deployPc, redeployed, response,
                   secForwarded, monthUsed, invokedKeys>>

\* the engine reports the stack complete once every resource exists
StackComplete ==
    /\ phase = "synthesized"
    /\ created = tree.resources
    /\ phase' = "deployed"
    /\ UNCHANGED <<variant, tree, created, response>>
    /\ UNCHANGED cdnVars
    /\ UNCHANGED apiVars

----------------------------------------------------------------------------
(* The deployed stack: asset deployments, CDN and bucket reads *)

\* a later deployment with changed assets: the handler first uploads ...
StartDeployment ==
    /\ phase = "deployed"
    /\ deployPc = "idle"
    /\ tree.deployments # {}
    /\ \E assets \in [Keys -> Versions] :
          /\ assets # objects
          /\ objects' = assets
    /\ deployPc' = "uploaded"
    /\ UNCHANGED <<variant, phase, tree, created, cache, redeployed, response>>
    /\ UNCHANGED apiVars

\* ... then invalidates the distribution paths and completes
FinishDeployment ==
    /\ deployPc = "uploaded"
    /\ \E dep \in tree.deployments :
          cache' = Invalidate(cache, dep.distributionPaths)
    /\ deployPc' = "idle"
    /\ redeployed' = TRUE
    /\ UNCHANGED <<variant, phase, tree, created, objects, response>>
    /\ UNCHANGED apiVars

\* a viewer's GET through the distribution's domain name
CdnRequest ==
    /\ phase = "deployed"
    /\ \E d \in tree.distributions :
          /\ \E path \in RequestPaths, scheme \in {"http", "https"} :
                LET key == ObjectKey(d, path)
                    hit == cache[key] # NoEntry
                    r == IF hit THEN cache[key] ELSE OriginFetch(tree, objects, d, key)
                IN  IF scheme = "http" /\ d.viewerProtocolPolicy = "REDIRECT_TO_HTTPS"
                    THEN /\ response' = [NoResponse EXCEPT !.via = "cdn", !.key = key,
                                                           !.status = 301]
                         /\ UNCHANGED cache
                    ELSE /\ response' = [NoResponse EXCEPT
                                            !.via = "cdn", !.key = key, !.secure = TRUE,
                                            !.who = CanonicalUserPrincipal(d.originAccessIdentity),
                                            !.status = r.status, !.body = r.body,
                                            !.absent = (objects[key] = 0)]
                         /\ cache' = [cache EXCEPT ![key] = r]
    /\ UNCHANGED <<variant, phase, tree, created, objects, deployPc, redeployed>>
    /\ UNCHANGED apiVars

\* a cached response reaches the end of its time to live
Expire ==
    /\ phase = "deployed"
    /\ \E k \in Keys :
          /\ cache[k] # NoEntry
          /\ cache' = [cache EXCEPT ![k] = NoEntry]
    /\ UNCHANGED <<variant, phase, tree, created, objects, deployPc, redeployed,
                   response>>
    /\ UNCHANGED apiVars

\* the principals of the stack, and the anonymous requester
Principals(t) ==
    {Anonymous, AutoDeleteRole, DeploymentHandlerRole}
    \cup { f.role : f \in t.functions }
    \cup { CanonicalUserPrincipal(o) : o \in t.oais }

\* a GetObject sent to the site bucket's own endpoint
DirectRead ==
    /\ phase = "deployed"
    /\ \E p \in Principals(tree), key \in Keys, secure \in BOOLEAN :
          LET r == S3GetObject(tree, objects, "Bucket", p, key, secure)
          IN  response' = [NoResponse EXCEPT
                              !.via = "s3", !.who = p, !.key = key,
                              !.secure = secure, !.status = r.status,
                              !.body = r.body, !.absent = (objects[key] = 0)]
    /\ UNCHANGED <<variant, phase, tree, created>>
    /\ UNCHANGED cdnVars
    /\ UNCHANGED apiVars

Next ==
    \/ Synth
    \/ CreateResource
    \/ StackComplete
    \/ StartDeployment
    \/ FinishDeployment
    \/ CdnRequest
    \/ Expire
    \/ DirectRead

Spec == Init /\ [][Next]_vars

----------------------------------------------------------------------------
(* The deployed stack: requests to the REST API's stage *)

\* A request to the stage.  The gateway answers 403 when no method matches
\* or when the method requires an API key and the key selects no usage plan
\* of the stage, 429 when the key's plan has no token or no quota left, and
\* otherwise forwards the request to the method's integration.
ApiRequest ==
    /\ phase = "deployed"
    /\ \E api \in tree.apis, m \in HttpMethods, path \in ApiPaths, k \in ApiKeyValues :
          LET ms == { x \in tree.methods :
                        x.api = api.name /\ x.path = path /\ x.httpMethod = m }
              method == CHOOSE x \in ms : TRUE
              plans == PlansOf(tree, api.name, k)
              plan == CHOOSE p \in plans : TRUE
              base == [NoResponse EXCEPT !.via = "api", !.who = <<"ApiKey", k>>,
                                         !.key = path, !.secure = TRUE,
                                         !.method = m]
          IN  IF ms = {}
              THEN /\ response' = [base EXCEPT !.status = 403]
                   /\ UNCHANGED apiVars
              ELSE IF method.integration = "MOCK"
              THEN /\ response' = [base EXCEPT !.status = 204]
                   /\ UNCHANGED apiVars
              ELSE IF method.apiKeyRequired /\ plans = {}
              THEN /\ response' = [base EXCEPT !.status = 403]
                   /\ UNCHANGED apiVars
              ELSE IF plans # {} /\ (tokens = 0 \/ monthUsed >= plan.quota.limit)
              THEN /\ response' = [base EXCEPT !.status = 429]
                   /\ UNCHANGED apiVars
              ELSE /\ response' = [base EXCEPT !.status = 200, !.forwarded = TRUE]
                   /\ invokedKeys' = invokedKeys \cup {k}
                   /\ secForwarded' = Min(secForwarded + 1, MaxCount)
                   /\ IF plans # {}
                      THEN tokens' = tokens - 1 /\ monthUsed' = monthUsed + 1
                      ELSE UNCHANGED <<tokens, monthUsed>>
    /\ UNCHANGED <<variant, phase, tree, created>>
    /\ UNCHANGED cdnVars

\* a second passes: the plan's bucket gains rateLimit tokens up to burstLimit
Tick ==
    /\ phase = "deployed"
    /\ \E p \in tree.usagePlans :
          tokens' = Min(p.throttle.burstLimit, tokens + p.throttle.rateLimit)
    /\ secForwarded' = 0
    /\ UNCHANGED <<variant, phase, tree, created, response, monthUsed, invokedKeys>>
    /\ UNCHANGED cdnVars

\* the quota period (a month) ends
MonthRollover ==
    /\ phase = "deployed"
    /\ monthUsed' = 0
    /\ UNCHANGED <<variant, phase, tree, created, response, tokens, secForwarded,
                   invokedKeys>>
    /\ UNCHANGED cdnVars

NextApi ==
    \/ Synth
    \/ CreateResource
    \/ StackComplete
    \/ ApiRequest
    \/ Tick
    \/ MonthRollover

SpecApi == Init /\ [][NextApi]_vars

----------------------------------------------------------------------------
(* Properties *)

TheApi == "sustainability-api"
ThePlan == "sustainability-usageplan"
DevStage == [api |-> TheApi, stage |-> "dev"]
SiteBucketId == <<"Bucket">>
LogBucketId == <<"LogBucket">>
SitePolicyId == <<"Bucket", "Policy">>
DistributionId == <<"cloud9-sustainability-siteDistribution">>
DeploymentId == <<"DeployWithInvalidation">>
Oai == CanonicalUserPrincipal("sfimage-cloudfront-OAI")
IndexKey == <<"index.html">>

\* C1: a request to the sustainability endpoint with no API key, or with a
\* key that is not a key of the usage plan, is never forwarded to the
\* function: every key that ever reached the function is a key of the plan,
\* and a POST with any other key is answered 403.
C1_NoKeyNoInvoke ==
    LET planKeys == UNION { p.keys : p \in { x \in tree.usagePlans : x.name = ThePlan } }
    IN  /\ invokedKeys \subseteq planKeys
        /\ ( /\ response.via = "api"
             /\ response.who \notin { <<"ApiKey", k>> : k \in planKeys } )
           => ~response.forwarded
        /\ ( /\ response.via = "api" /\ response.method = "POST"
             /\ response.who \notin { <<"ApiKey", k>> : k \in planKeys } )
           => response.status = 403

C1_Witness ==
    /\ response.via = "api" /\ response.method = "POST"
    /\ response.who = <<"ApiKey", "none">>
    /\ response.status = 403
    /\ invokedKeys = {"ApiKey"}

\* C2: with the stack's API key, at most 1 request per second and at most
\* 1000 per month reach the function, and a POST that arrives when the
\* second's or the month's allowance is used up is answered 429 and is not
\* forwarded.
C2_Throttled ==
    /\ [](secForwarded <= 1 /\ monthUsed <= 1000)
    /\ [][ /\ secForwarded' > secForwarded => secForwarded < 1
           /\ monthUsed' > monthUsed => monthUsed < 1000
           /\ ( /\ response' # response
                /\ response'.via = "api" /\ response'.method = "POST"
                /\ response'.who = <<"ApiKey", "ApiKey">>
                /\ secForwarded >= 1 \/ monthUsed >= 1000 )
              => /\ response'.status = 429
                 /\ ~response'.forwarded
                 /\ UNCHANGED <<secForwarded, monthUsed, invokedKeys>> ]_vars

C2_Witness ==
    /\ monthUsed = 1000
    /\ tokens = 1
    /\ response.via = "api"
    /\ response.who = <<"ApiKey", "ApiKey">>
    /\ response.status = 429

\* C3: in the declared graph of either variant the API key belongs to the
\* usage plan `sustainability-usageplan`, the plan is bound to the `dev`
\* stage of the REST API whose POST method requires the key, no key is
\* outside the plan and no plan is bound to another API or stage.
C3_KeyPlanStage ==
    phase # "new" =>
        /\ tree.apiKeys # {}
        /\ \A k \in tree.apiKeys :
              /\ k.stages = {DevStage}
              /\ \E p \in tree.usagePlans : p.name = ThePlan /\ k.id \in p.keys
        /\ \A p \in tree.usagePlans :
              /\ p.name = ThePlan
              /\ p.apiStages = {DevStage}
              /\ p.keys \subseteq { k.id : k \in tree.apiKeys }
        /\ \E m \in tree.methods :
              /\ m.api = TheApi /\ m.path = SustainabilityPath
              /\ m.httpMethod = "POST" /\ m.apiKeyRequired

C3_Witness ==
    /\ phase = "deployed"
    /\ <<ThePlan, "ApiKey">> \in created

\* C4 as claimed: a direct read of the site bucket by any principal other
\* than the origin access identity is denied.
C4_OnlyOaiReads ==
    ( /\ variant = "A" /\ response.via = "s3"
      /\ response.who # Oai )
    => response.status = 403

\* C4 as amended: a direct read of the site bucket is denied to every
\* principal except the origin access identity and the role of the bucket
\* deployment's handler, which the deployment grants read and write.
C4_OnlyOaiAndDeployerRead ==
    ( /\ variant = "A" /\ response.via = "s3"
      /\ response.who \notin {Oai, DeploymentHandlerRole} )
    => response.status = 403

C4_Witness ==
    /\ variant = "A" /\ response.via = "s3"
    /\ response.who = Anonymous /\ response.secure
    /\ ~response.absent
    /\ response.status = 403

ReadOnlyVerbs == {"Get", "List", "Describe"}

\* C5: the inline policy `sustainability-policy` grants exactly the four
\* read-only actions and nothing that mutates, and is attached to the role
\* of sustainability-core only, never to the role of hex-core-dev.
C5_ReadOnlyPolicy ==
    phase # "new" =>
        LET ps == { p \in tree.policies : p.name = "sustainability-policy" }
        IN  /\ Cardinality(ps) = 1
            /\ \A p \in ps :
                  LET granted == UNION { st.actions : st \in p.statements }
                  IN  /\ granted =
                           { Act("cloudformation", <<"List", "Stack", "Resources">>),
                             Act("ec2", <<"Describe", "Instances">>),
                             Act("lambda", <<"Get", "Function", "Configuration">>),
                             Act("s3", <<"Get", "Lifecycle", "Configuration">>) }
                      /\ \A a \in granted : Head(a.name) \in ReadOnlyVerbs
                      /\ p.roles = {RoleOf("sustainability-core")}
                      /\ RoleOf("hex-core-dev") \notin p.roles

C5_Witness ==
    /\ phase = "synthesized"
    /\ <<"sustainability-policy">> \in created
    /\ <<"hex-core-dev">> \in created

\* C8: once a deployment has completed, nothing in the CDN cache differs
\* from what the origin now holds: every request through the CDN is served
\* the content of the latest deployment.
C8_NoStaleCache ==
    ( variant = "A" /\ phase = "deployed" /\ deployPc = "idle" ) =>
        \A d \in tree.distributions, k \in Keys :
            cache[k] # NoEntry => cache[k] = OriginFetch(tree, objects, d, k)

C8_Witness ==
    /\ variant = "A" /\ redeployed /\ deployPc = "idle"
    /\ objects[IndexKey] = 2
    /\ cache[IndexKey] = [status |-> 200, body |-> 2]
    /\ response.via = "cdn" /\ response.key = IndexKey /\ response.body = 2

\* C9 as claimed: a request through the CDN for a path that matches no
\* object of the site bucket is answered 200 with the content of index.html.
C9_FallbackToIndex ==
    ( /\ variant = "A" /\ deployPc = "idle"
      /\ response.via = "cdn" /\ response.secure
      /\ response.absent /\ objects[response.key] = 0
      /\ objects[IndexKey] # 0 )
    => /\ response.status = 200
       /\ response.body = objects[IndexKey]

\* C10 as claimed: buckets before the bucket policy, the bucket policy
\* before the distribution, the distribution before the asset deployment.
C10_BucketsPolicyDistributionDeployment ==
    variant = "A" =>
        /\ SitePolicyId \in created => {SiteBucketId, LogBucketId} \subseteq created
        /\ DistributionId \in created => SitePolicyId \in created
        /\ DeploymentId \in created => DistributionId \in created

\* C10 as amended: the site bucket exists before its policy is created, the
\* site and log buckets exist before the distribution is created, and the
\* distribution and the site bucket exist before the asset deployment runs
\* (no asset is uploaded while the distribution does not exist).
C10_OrderByReference ==
    variant = "A" =>
        /\ SitePolicyId \in created => SiteBucketId \in created
        /\ DistributionId \in created => {SiteBucketId, LogBucketId} \subseteq created
        /\ DeploymentId \in created => {SiteBucketId, DistributionId} \subseteq created
        /\ objects # [k \in Keys |-> 0] => DistributionId \in created

C10_Witness ==
    /\ variant = "A"
    /\ phase = "synthesized"
    /\ {SitePolicyId, DistributionId, DeploymentId} \subseteq created
    /\ objects = InitialAssets

====
